---- MODULE Spec2Model ----
(***************************************************************************)
(* BinLogFileReader of binlogfile2sql_util.py as a state machine.          *)
(*                                                                         *)
(* The reader is one record, rd, whose fields are the attributes of the    *)
(* Python object.  The binlog file is read sequentially and never          *)
(* revisited, so its content is an input of every read: the bytes the      *)
(* next read finds are drawn when the read happens.  One action is one     *)
(* pass through the body of the while loop of fetchone; rd.pc = "loop"     *)
(* says that a call is in progress (the pass ended in continue), and       *)
(* close() can only be called between calls.                               *)
(*                                                                         *)
(* BinLogPacketWrapper and the connection object belong to the libraries   *)
(* pymysqlreplication and pymysql; they are modelled by what the reader    *)
(* sees of them at the call sites.                                         *)
(***************************************************************************)
EXTENDS Integers, Sequences, FiniteSets, TLC

VARIABLES rd, hist, pair, files

vars == <<rd, hist, pair, files>>

-----------------------------------------------------------------------------
(* Bounds of the model *)

\* end positions carried by the frames are 0..MaxPos
MaxPos == 2
\* timestamps carried by the frames are 0..MaxTs
MaxTs == 1
\* connections replaced while still open that the model keeps counting
MaxOrphans == 2
\* events a run of the paired readers records
MaxOut == 2
\* names a directory or a record of executed files can hold
MaxFiles == 3

-----------------------------------------------------------------------------
(* Values *)

\* Python's None where an integer is expected
None == -1
\* Python's None where a collection is expected
NoneSet == {"None"}

\* bool(x) of an optional integer
Truthy(x) == x # None /\ x # 0

\* length of the common header, the argument of read() and of struct.unpack
HeaderLen == 19

RowsEvents == {"WriteRows", "UpdateRows", "DeleteRows"}

\* the classes _allowed_event_list starts from when only_events is None
DefaultEvents ==
    {"Query", "Rotate", "Stop", "FormatDescription", "Xid", "Gtid",
     "BeginLoadQuery", "ExecuteLoadQuery", "UpdateRows", "WriteRows",
     "DeleteRows", "TableMap", "Heartbeat", "NotImplemented"}

Positions == 0..MaxPos
Timestamps == 0..MaxTs
TableIds == {7}
Tables == {"A", "B"}
\* declared event_size values: one below the header length, one regular
EventSizes == {HeaderLen - 1, HeaderLen + 8}
NoFrame ==
    [type |-> "-", timestamp |-> 0, event_size |-> 0, log_pos |-> 0,
     table_id |-> 0, table |-> "-", position |-> 0, next_binlog |-> "-"]

FrameOf(t, ts, sz, lp, tid, tbl, p, nb) ==
    [type |-> t, timestamp |-> ts, event_size |-> sz, log_pos |-> lp,
     table_id |-> tid, table |-> tbl, position |-> p, next_binlog |-> nb]

\* the frames a read can find: header fields and what the body decodes to
Frames ==
    { FrameOf("Rotate", ts, sz, lp, 0, "-", p, "bin.2") :
        ts \in Timestamps, sz \in EventSizes, lp \in Positions, p \in {1} }
    \cup
    { FrameOf("TableMap", ts, sz, lp, tid, tbl, 0, "-") :
        ts \in Timestamps, sz \in EventSizes, lp \in Positions,
        tid \in TableIds, tbl \in Tables }
    \cup
    { FrameOf("WriteRows", ts, sz, lp, tid, "-", 0, "-") :
        ts \in Timestamps, sz \in EventSizes, lp \in Positions, tid \in TableIds }
    \cup
    { FrameOf(t, ts, sz, lp, 0, "-", 0, "-") :
        t \in {"Query", "NotImplemented"},
        ts \in Timestamps, sz \in EventSizes, lp \in Positions }

\* the frames read where two entries of table_map are to be told apart:
\* regular sizes, two table ids
EffTableIds == TableIds \cup {8}
EffFrames ==
    { FrameOf("Rotate", ts, HeaderLen + 8, lp, 0, "-", 1, "bin.2") :
        ts \in Timestamps, lp \in Positions }
    \cup
    { FrameOf("TableMap", ts, HeaderLen + 8, lp, tid, tbl, 0, "-") :
        ts \in Timestamps, lp \in Positions, tid \in TableIds, tbl \in Tables }
    \cup
    { FrameOf("TableMap", ts, HeaderLen + 8, lp, tid, "B", 0, "-") :
        ts \in Timestamps, lp \in Positions, tid \in EffTableIds \ TableIds }
    \cup
    { FrameOf("WriteRows", ts, HeaderLen + 8, lp, tid, "-", 0, "-") :
        ts \in Timestamps, lp \in Positions, tid \in EffTableIds }
    \cup
    { FrameOf(t, ts, HeaderLen + 8, lp, 0, "-", 0, "-") :
        t \in {"Query", "NotImplemented"}, ts \in Timestamps, lp \in Positions }

\* the empty dict
EmptyMap == [i \in {} |-> "-"]

-----------------------------------------------------------------------------
(* Construction *)

\* _allowed_event_list with the test of filter_non_implemented_events inverted
AllowedEventListInverted(only_events, ignored_events, filter_non_implemented_events) ==
    LET events == IF only_events # NoneSet THEN only_events ELSE DefaultEvents
        kept == IF ignored_events # NoneSet THEN events \ ignored_events ELSE events
    IN  IF ~filter_non_implemented_events THEN kept \ {"NotImplemented"} ELSE kept

\* _allowed_event_list: only_events minus ignored_events, minus
\* NotImplementedEvent when filter_non_implemented_events
_allowed_event_list(only_events, ignored_events, filter_non_implemented_events) ==
    LET events == IF only_events # NoneSet THEN only_events ELSE DefaultEvents
        kept == IF ignored_events # NoneSet THEN events \ ignored_events ELSE events
    IN  IF filter_non_implemented_events THEN kept \ {"NotImplemented"} ELSE kept

\* events.remove(e) raises KeyError for a class that is not in the set
ConstructorRaises(only_events, ignored_events) ==
    /\ ignored_events # NoneSet
    /\ ~(ignored_events \subseteq
            (IF only_events # NoneSet THEN only_events ELSE DefaultEvents))

\* what the probe of the constructor meets: no connection, a failing query,
\* no row, a row without Value, or a row with the value NONE or CRC32
ProbeOutcomes ==
    {"connect_error", "query_error", "no_row", "no_value", "NONE", "CRC32"}

\* __checksum_enabled with CRC32 for the default of _result.get
ChecksumDefaultsOn(settings, probe) ==
    IF ~settings THEN FALSE
    ELSE IF probe \in {"connect_error", "query_error"} THEN FALSE
    ELSE IF probe = "no_row" THEN FALSE
    ELSE LET value == IF probe = "no_value" THEN "CRC32" ELSE probe
         IN  value # "NONE"

\* __checksum_enabled: every exception is swallowed and answers False, a
\* missing row answers False, and a missing Value counts as NONE
__checksum_enabled(settings, probe) ==
    IF ~settings THEN FALSE           \* None.cursor() raises, swallowed
    ELSE IF probe \in {"connect_error", "query_error"} THEN FALSE
    ELSE IF probe = "no_row" THEN FALSE
    ELSE LET value == IF probe = "no_value" THEN "NONE" ELSE probe
         IN  value # "NONE"

\* __init__ followed by the probe it ends with
NewReader(log_pos, stop_pos, skip_to_timestamp, only_events, ignored_events, filter_non_implemented_events, only_tables, settings, strict, probe) ==
    LET allowed == _allowed_event_list(only_events, ignored_events,
                                       filter_non_implemented_events)
        connected == settings /\ probe # "connect_error"
    IN  [file |-> "None",
         file_path |-> "path",
         pos |-> None,
         at_eof |-> FALSE,
         connected_ctl |-> connected,
         ctl_connection |-> IF connected THEN "open" ELSE "None",
         orphans |-> 0,
         ctl_connection_settings |-> settings,
         only_tables |-> only_tables,
         allowed_events |-> allowed,
         allowed_events_in_packet |-> {"TableMap", "Rotate"} \cup allowed,
         fail_on_table_metadata_unavailable |-> strict,
         table_map |-> EmptyMap,
         log_pos |-> log_pos,
         start_pos |-> log_pos,
         stop_pos |-> stop_pos,
         log_file |-> "None",
         skip_to_timestamp |-> skip_to_timestamp,
         use_checksum |-> __checksum_enabled(settings, probe),
         pc |-> "idle",
         ret |-> [kind |-> "none", ev |-> NoFrame, err |-> "-"]]

-----------------------------------------------------------------------------
(* Outcomes of a pass through the loop of fetchone *)

Ret(kind, ev, err) == [kind |-> kind, ev |-> ev, err |-> err]

\* an exception leaves fetchone
Raise(r, e) == [r EXCEPT !.pc = "idle", !.ret = Ret("raise", NoFrame, e)]
\* break that forgets the file: the next call opens it again
BreakReopens(r) ==
    [r EXCEPT !.pc = "idle", !.ret = Ret("eof", NoFrame, "-"),
              !.file = "None", !.at_eof = FALSE]

\* break: the loop ends and fetchone returns None
Break(r) == [r EXCEPT !.pc = "idle", !.ret = Ret("eof", NoFrame, "-")]
\* continue: the next pass reads the next frame
Continue(r) == [r EXCEPT !.pc = "loop", !.ret = Ret("pending", NoFrame, "-")]
\* return binlog_event.event
Return(r, f) == [r EXCEPT !.pc = "idle", !.ret = Ret("event", f, "-")]

-----------------------------------------------------------------------------
(* The metadata connection *)

\* __connect_to_ctl: self._ctl_connection is rebound to a new connection; the
\* object it referred to is not closed
__connect_to_ctl(r) ==
    [r EXCEPT !.orphans = IF r.ctl_connection = "open" THEN @ + 1 ELSE @,
              !.ctl_connection = "open",
              !.connected_ctl = TRUE]

\* close() that forgets to clear __connected_ctl
CloseKeepsFlag(r) ==
    LET r1 == IF r.file # "None"
              THEN [r EXCEPT !.file = "closed", !.file_path = "None"]
              ELSE r
        err == IF r1.connected_ctl /\ r1.ctl_connection # "open"
               THEN "AlreadyClosed" ELSE "-"
        r2 == IF r1.connected_ctl /\ err = "-"
              THEN [r1 EXCEPT !.ctl_connection = "closed"]
              ELSE r1
    IN  [r2 EXCEPT !.pc = "idle",
                   !.ret = IF err = "-" THEN Ret("closed", NoFrame, "-")
                           ELSE Ret("raise", NoFrame, err)]

\* close(): the file object is closed but stays bound to self._file
close(r) ==
    LET r1 == IF r.file # "None"
              THEN [r EXCEPT !.file = "closed", !.file_path = "None"]
              ELSE r
        \* Connection.close() of pymysql raises on a closed connection
        err == IF r1.connected_ctl /\ r1.ctl_connection # "open"
               THEN "AlreadyClosed" ELSE "-"
        r2 == IF r1.connected_ctl /\ err = "-"
              THEN [r1 EXCEPT !.ctl_connection = "closed", !.connected_ctl = FALSE]
              ELSE r1
    IN  [r2 EXCEPT !.pc = "idle",
                   !.ret = IF err = "-" THEN Ret("closed", NoFrame, "-")
                           ELSE Ret("raise", NoFrame, err)]

\* what a query on the metadata connection can do
QueryOutcomes == {"ok", "transient", "other"}

\* the except clause of lines 322-328 without the test of the code: every
\* OperationalError clears __connected_ctl before it is raised or retried
LookupAttemptMarksAlways(r, o, dropped) ==
    LET r1 == IF ~r.connected_ctl THEN __connect_to_ctl(r) ELSE r
    IN  IF o = "ok" THEN [r |-> r1, result |-> "rows", connected |-> ~r.connected_ctl]
        ELSE IF o = "transient"
        THEN [r |-> [r1 EXCEPT !.connected_ctl = FALSE,
                               !.ctl_connection = IF dropped THEN "closed" ELSE @],
              result |-> "continue", connected |-> ~r.connected_ctl]
        ELSE [r |-> [r1 EXCEPT !.connected_ctl = FALSE],
              result |-> "raise", connected |-> ~r.connected_ctl]

\* the except clause of lines 322-328 without line 325: a transient error is
\* retried on the connection that failed
LookupAttemptKeepsFlag(r, o, dropped) ==
    LET r1 == IF ~r.connected_ctl THEN __connect_to_ctl(r) ELSE r
    IN  IF o = "ok" THEN [r |-> r1, result |-> "rows", connected |-> ~r.connected_ctl]
        ELSE IF o = "transient"
        THEN [r |-> [r1 EXCEPT !.ctl_connection = IF dropped THEN "closed" ELSE @],
              result |-> "continue", connected |-> ~r.connected_ctl]
        ELSE [r |-> r1, result |-> "raise", connected |-> ~r.connected_ctl]

\* one pass of the for loop of __get_table_information.  o is the outcome of
\* the query: "transient" is an OperationalError with a code of
\* MYSQL_EXPECTED_ERROR_CODES, "other" any other OperationalError.  dropped
\* says whether the library tore the socket down when it raised (the client
\* does so when it notices the loss itself, not when the error is an answer).
\* connected says that the pass called __connect_to_ctl (line 291).
LookupAttempt(r, o, dropped) ==
    LET r1 == IF ~r.connected_ctl THEN __connect_to_ctl(r) ELSE r
    IN  IF o = "ok" THEN [r |-> r1, result |-> "rows", connected |-> ~r.connected_ctl]
        ELSE IF o = "transient"
        THEN [r |-> [r1 EXCEPT !.connected_ctl = FALSE,
                               !.ctl_connection = IF dropped THEN "closed" ELSE @],
              result |-> "continue", connected |-> ~r.connected_ctl]
        ELSE [r |-> r1, result |-> "raise", connected |-> ~r.connected_ctl]

\* what a call of __get_table_information did: the reader it leaves, its
\* result, the queries it made, whether the first left __connected_ctl
\* cleared and whether the second pass connected again
Looked(r, result, attempts, marked, reconnected) ==
    [r |-> r, result |-> result, attempts |-> attempts, marked |-> marked,
     reconnected |-> reconnected]

\* __get_table_information: for i in range(1, 3); when both passes end in
\* continue the function falls off its end and returns None
__get_table_information(r, o1, o2, d1, d2) ==
    LET a1 == LookupAttempt(r, o1, d1)
    IN  IF a1.result # "continue"
        THEN Looked(a1.r, a1.result, 1, ~a1.r.connected_ctl, FALSE)
        ELSE LET a2 == LookupAttempt(a1.r, o2, d2)
             IN  Looked(a2.r,
                        IF a2.result # "continue" THEN a2.result ELSE "None",
                        2, ~a1.r.connected_ctl, a2.connected)

-----------------------------------------------------------------------------
(* Decoding: BinLogPacketWrapper as fetchone uses it *)

Decoded(r, ok, err) == [r |-> r, event |-> ok, err |-> err]

\* only_tables as the row-event classes apply it
TableFiltered(r, tbl) == r.only_tables # NoneSet /\ tbl \notin r.only_tables

\* binlog_event.event is None (event = FALSE) for a class outside the packet
\* set, for a TABLE_MAP of a filtered table, and for a row event whose
\* table_id is not in table_map or maps to a filtered table.  A TABLE_MAP
\* asks the connection for the columns through _get_table_information.
BinLogPacketWrapper(r, f, o1, o2, d1, d2) ==
    IF f.type \notin r.allowed_events_in_packet THEN Decoded(r, FALSE, "-")
    ELSE IF f.type = "TableMap"
    THEN IF TableFiltered(r, f.table) THEN Decoded(r, FALSE, "-")
         ELSE IF r.ctl_connection = "None" THEN Decoded(r, TRUE, "-")
         ELSE LET g == __get_table_information(r, o1, o2, d1, d2)
              IN  IF g.result = "raise" THEN Decoded(g.r, FALSE, "OperationalError")
                  ELSE IF g.result = "None" THEN Decoded(g.r, FALSE, "TypeError")
                  ELSE Decoded(g.r, TRUE, "-")
    ELSE IF f.type \in RowsEvents
    THEN IF f.table_id \notin DOMAIN r.table_map
         THEN IF r.fail_on_table_metadata_unavailable
              THEN Decoded(r, FALSE, "TableMetadataUnavailable")
              ELSE Decoded(r, FALSE, "-")
         ELSE IF TableFiltered(r, r.table_map[f.table_id])
              THEN Decoded(r, FALSE, "-")
              ELSE Decoded(r, TRUE, "-")
    ELSE Decoded(r, TRUE, "-")

-----------------------------------------------------------------------------
(* fetchone, lines 195-254: the filters and the tracking of a decoded event *)

\* line 195, second operand: binlog_event.log_pos < self.start_pos
BeforeStart(r, f) == f.log_pos < r.start_pos

\* line 198 with > for >=
StopReachedStrict(r, f) == Truthy(r.stop_pos) /\ f.log_pos > r.stop_pos

\* line 198: self.stop_pos and binlog_event.log_pos >= self.stop_pos
StopReached(r, f) == Truthy(r.stop_pos) /\ f.log_pos >= r.stop_pos

\* lines 201-215 without self.table_map = {}
TrackPositionNoClear(r, f) ==
    IF f.type = "Rotate"
    THEN [r EXCEPT !.log_pos = f.position, !.log_file = f.next_binlog]
    ELSE IF f.log_pos # 0 THEN [r EXCEPT !.log_pos = f.log_pos]
    ELSE r

\* lines 201-215 with else for elif binlog_event.log_pos
TrackPositionAlways(r, f) ==
    IF f.type = "Rotate"
    THEN [r EXCEPT !.log_pos = f.position,
                   !.log_file = f.next_binlog,
                   !.table_map = EmptyMap]
    ELSE [r EXCEPT !.log_pos = f.log_pos]

\* lines 201-215 with binlog_event.log_pos for binlog_event.event.position
TrackPositionRotateEnd(r, f) ==
    IF f.type = "Rotate"
    THEN [r EXCEPT !.log_pos = f.log_pos,
                   !.log_file = f.next_binlog,
                   !.table_map = EmptyMap]
    ELSE IF f.log_pos # 0 THEN [r EXCEPT !.log_pos = f.log_pos]
    ELSE r

\* lines 201-215: a ROTATE moves the position to the next file and empties
\* table_map; any other event moves log_pos when its own is not 0
TrackPosition(r, f) ==
    IF f.type = "Rotate"
    THEN [r EXCEPT !.log_pos = f.position,
                   !.log_file = f.next_binlog,
                   !.table_map = EmptyMap]
    ELSE IF f.log_pos # 0 THEN [r EXCEPT !.log_pos = f.log_pos]
    ELSE r

\* line 241
BeforeTimestamp(r, f) ==
    Truthy(r.skip_to_timestamp) /\ f.timestamp < r.skip_to_timestamp

\* lines 244-247 as setdefault: an id already present keeps its table
PutTableMapOnce(r, f) ==
    IF f.type = "TableMap" /\ f.table_id \notin DOMAIN r.table_map
    THEN [r EXCEPT !.table_map =
            [i \in DOMAIN @ \cup {f.table_id} |->
                IF i = f.table_id THEN f.table ELSE @[i]]]
    ELSE r

\* lines 244-247 moved below the test of line 251: only a TABLE_MAP of the
\* allowed events is stored
PutTableMapIfAllowed(r, f) ==
    IF f.type = "TableMap" /\ f.type \in r.allowed_events
    THEN [r EXCEPT !.table_map =
            [i \in DOMAIN @ \cup {f.table_id} |->
                IF i = f.table_id THEN f.table ELSE @[i]]]
    ELSE r

\* lines 244-247 as self.table_map = {table_id: event.get_table()}
PutTableMapAlone(r, f) ==
    IF f.type = "TableMap"
    THEN [r EXCEPT !.table_map = [i \in {f.table_id} |-> f.table]]
    ELSE r

\* lines 244-247: self.table_map[table_id] = event.get_table()
PutTableMap(r, f) ==
    IF f.type = "TableMap"
    THEN [r EXCEPT !.table_map =
            [i \in DOMAIN @ \cup {f.table_id} |->
                IF i = f.table_id THEN f.table ELSE @[i]]]
    ELSE r

\* lines 195-254 with lines 201-215 moved above line 198
FiltersTrackBeforeStop(r, f) ==
    IF r.start_pos = None THEN Raise(r, "TypeError")
    ELSE IF BeforeStart(r, f) THEN Continue(r)
    ELSE LET r1 == TrackPosition(r, f)
         IN  IF StopReached(r1, f) THEN Break(r1)
             ELSE IF BeforeTimestamp(r1, f) THEN Continue(r1)
             ELSE LET r2 == PutTableMap(r1, f)
                  IN  IF f.type \notin r2.allowed_events THEN Continue(r2)
                      ELSE Return(r2, f)

\* lines 195-254 with lines 241-242 moved above line 201
FiltersTimestampFirst(r, f) ==
    IF r.start_pos = None THEN Raise(r, "TypeError")
    ELSE IF BeforeStart(r, f) THEN Continue(r)
    ELSE IF StopReached(r, f) THEN Break(r)
    ELSE IF BeforeTimestamp(r, f) THEN Continue(r)
    ELSE LET r2 == PutTableMap(TrackPosition(r, f), f)
         IN  IF f.type \notin r2.allowed_events THEN Continue(r2)
             ELSE Return(r2, f)

\* lines 195-254 with lines 198-199 moved above the test of start_pos
FiltersStopFirst(r, f) ==
    IF r.start_pos = None THEN Raise(r, "TypeError")
    ELSE IF StopReached(r, f) THEN Break(r)
    ELSE IF BeforeStart(r, f) THEN Continue(r)
    ELSE LET r1 == TrackPosition(r, f)
         IN  IF BeforeTimestamp(r1, f) THEN Continue(r1)
             ELSE LET r2 == PutTableMap(r1, f)
                  IN  IF f.type \notin r2.allowed_events THEN Continue(r2)
                      ELSE Return(r2, f)

\* lines 195-254 for a frame whose event is not None
Filters(r, f) ==
    IF r.start_pos = None THEN Raise(r, "TypeError")     \* int < None
    ELSE IF BeforeStart(r, f) THEN Continue(r)
    ELSE IF StopReached(r, f) THEN Break(r)
    ELSE LET r1 == TrackPosition(r, f)
         IN  IF BeforeTimestamp(r1, f) THEN Continue(r1)
             ELSE LET r2 == PutTableMap(r1, f)
                  IN  IF f.type \notin r2.allowed_events THEN Continue(r2)
                      ELSE Return(r2, f)

-----------------------------------------------------------------------------
(* fetchone, lines 157-193: opening, reading and decoding *)

\* __connect_to_stream: open, read 4 bytes, compare with the magic
__connect_to_stream(r, magic_ok) ==
    LET r1 == [r EXCEPT !.file = "open", !.pos = 0]
    IN  IF magic_ok THEN [r |-> [r1 EXCEPT !.pos = 4], err |-> "-"]
        ELSE [r |-> r1, err |-> "BadMagicBytes"]

\* lines 166-182 and the decoding: avail is what read(19) finds, "eof" (no
\* byte), "partial" (1 to 18 bytes) or "frame".  read(event_size - 19) with a
\* negative argument reads to the end of the file.
ReadAndDecode(r, in) ==
    IF r.file = "closed" THEN Raise(r, "ValueError")
    ELSE IF in.avail = "eof" THEN Break([r EXCEPT !.at_eof = TRUE])
    ELSE IF in.avail = "partial"
    THEN Raise([r EXCEPT !.at_eof = TRUE], "struct.error")
    ELSE LET f == in.frame
             r1 == IF f.event_size < HeaderLen THEN [r EXCEPT !.at_eof = TRUE] ELSE r
             d == BinLogPacketWrapper(r1, f, in.o1, in.o2, in.d1, in.d2)
         IN  IF d.err # "-" THEN Raise(d.r, d.err)
             ELSE IF ~d.event THEN Continue(d.r)
             ELSE Filters(d.r, f)

\* one pass through the body of while True
fetchone(r, in) ==
    LET s == IF r.file = "None" THEN __connect_to_stream(r, in.magic_ok)
             ELSE [r |-> r, err |-> "-"]
    IN  IF s.err # "-" THEN Raise(s.r, s.err)
        ELSE IF ~s.r.connected_ctl /\ s.r.ctl_connection_settings
        THEN IF in.connect_ok THEN ReadAndDecode(__connect_to_ctl(s.r), in)
             ELSE Raise(s.r, "OperationalError")
        ELSE ReadAndDecode(s.r, in)

-----------------------------------------------------------------------------
(* What a pass reads *)

\* what the calls of one pass find outside the reader: the first 4 bytes of
\* the file, whether a connection can be made, what read(19) returns, and
\* what the queries of the column lookup do
Input(magic_ok, connect_ok, avail, frame, o1, o2, d1, d2) ==
    [magic_ok |-> magic_ok, connect_ok |-> connect_ok, avail |-> avail,
     frame |-> frame, o1 |-> o1, o2 |-> o2, d1 |-> d1, d2 |-> d2]

\* line 160: the pass connects before it reads
Reconnects(r) == ~r.connected_ctl /\ r.ctl_connection_settings

\* what the two queries of a column lookup can do, and whether the socket
\* went down with a transient failure: the second query is only made after a
\* transient failure of the first
LookupScripts ==
    { <<o1, "ok", FALSE, FALSE>> : o1 \in {"ok", "other"} }
    \cup
    { <<"transient", o2, d1, FALSE>> : o2 \in {"ok", "other"}, d1 \in BOOLEAN }
    \cup
    { <<"transient", "transient", d1, d2>> : d1 \in BOOLEAN, d2 \in BOOLEAN }

NoLookup == <<"ok", "ok", FALSE, FALSE>>

\* the inputs that matter to a pass of reader r over the frames fs; the file
\* does not change under the reader, so past its end there is nothing to read
Inputs(r, fs) ==
    LET ms == IF r.file = "None" THEN BOOLEAN ELSE {TRUE}
        cs == IF Reconnects(r) THEN BOOLEAN ELSE {TRUE}
        asking == IF r.ctl_connection_settings
                  THEN {f \in fs : f.type = "TableMap"} ELSE {}
    IN  { Input(m, c, a, NoFrame, "ok", "ok", FALSE, FALSE) :
            m \in ms, c \in cs,
            a \in IF r.at_eof THEN {"eof"} ELSE {"eof", "partial"} }
        \cup
        IF r.at_eof THEN {}
        ELSE { Input(m, c, "frame", f, "ok", "ok", FALSE, FALSE) :
                 m \in ms, c \in cs, f \in fs \ asking }
             \cup
             { Input(m, c, "frame", f, l[1], l[2], l[3], l[4]) :
                 m \in ms, c \in cs, f \in asking, l \in LookupScripts }

\* the pass gets as far as read(19) on an open file
Reads(r, in) ==
    /\ r.file # "closed"
    /\ r.file = "None" => in.magic_ok
    /\ Reconnects(r) => in.connect_ok

-----------------------------------------------------------------------------
(* The record of what has happened, kept for the properties *)

\* the position filters of lines 195 and 198, said of a frame
PassesPosition(r, f) ==
    /\ r.start_pos # None
    /\ f.log_pos >= r.start_pos
    /\ ~(Truthy(r.stop_pos) /\ f.log_pos >= r.stop_pos)

\* the timestamp filter of line 241, said of a frame
PassesTimestamp(r, f) ==
    ~Truthy(r.skip_to_timestamp) \/ f.timestamp >= r.skip_to_timestamp

Put(m, k, v) == [i \in DOMAIN m \cup {k} |-> IF i = k THEN v ELSE m[i]]

\* no column lookup was made
NoLook ==
    [ran |-> FALSE, o1 |-> "-", o2 |-> "-", result |-> "-", attempts |-> 0,
     marked |-> FALSE, reconnected |-> FALSE]

\* the options of the constructor that the reader does not keep as given
NoOpts == [only_events |-> NoneSet, ignored_events |-> NoneSet, filter_non_implemented_events |-> TRUE]

\* watch names the history a specification records besides the last pass:
\* "registry" (seen, kept), "position" (prev, obs, mono, last), "lookup"
\* (look), "frame" (frame, dec), "end" (ended, after) or "-"
NoHist(watch) ==
    [watch |-> watch, op |-> "init", avail |-> "-", type |-> "-", small |-> FALSE,
     passed |-> FALSE, magic |-> "unread", seen |-> EmptyMap,
     kept |-> EmptyMap, prev |-> None, obs |-> None, mono |-> TRUE,
     last |-> 0, probe |-> "-", opts |-> NoOpts, look |-> NoLook,
     frame |-> NoFrame, dec |-> FALSE, ended |-> "no", after |-> FALSE]

\* hist after a pass of fetchone that took reader r to r2 on input in
\*   avail, type, small: what read(19) found and the frame's class and size
\*   passed: the frame read was decoded and passes the position filters
\*   magic: what the first 4 bytes were
\*   seen:  table_id -> table of the TABLE_MAP frames read since the last
\*          ROTATE frame read
\*   kept:  table_id -> table of the TABLE_MAP events decoded that passed the
\*          position and timestamp filters, since the last ROTATE event
\*          decoded that passed the position filters
\*   obs:   self.log_pos as it was after the last event returned, and prev
\*          as it was after the one returned before
\*   mono:  no ROTATE frame was read and the non-zero end positions of the
\*          frames read so far never went down; last is the latest of them
\*   probe, opts: what the constructor met and was given; they do not change
\*   look:  what the column lookup of the pass did, if the pass made one
\*   frame: the frame the pass read, and dec: its event is not None
\*   ended: why fetchone first returned None, "eof" (read(19) found nothing)
\*          or "stop" (line 198), and after: a pass was made since then
AfterPass(h, r, in, r2) ==
    LET reads == Reads(r, in)
        got == reads /\ in.avail = "frame"
        f == in.frame
        rc == IF Reconnects(r) THEN __connect_to_ctl(r) ELSE r
        dec == /\ got
               /\ LET d == BinLogPacketWrapper(rc, f, in.o1, in.o2, in.d1, in.d2)
                  IN  d.event /\ d.err = "-"
        acc == dec /\ PassesPosition(r, f)
        registry == h.watch = "registry"
        position == h.watch = "position"
        asks == /\ h.watch = "lookup"
                /\ got
                /\ f.type = "TableMap"
                /\ f.type \in rc.allowed_events_in_packet
                /\ ~TableFiltered(rc, f.table)
                /\ rc.ctl_connection # "None"
        g == __get_table_information(rc, in.o1, in.o2, in.d1, in.d2)
        mono == /\ h.mono
                /\ (got /\ position) =>
                      /\ f.type # "Rotate"
                      /\ (f.log_pos = 0 \/ f.log_pos >= h.last)
    IN  [watch |-> h.watch,
         op |-> "fetchone",
         avail |-> IF reads THEN in.avail ELSE "-",
         type |-> IF got THEN f.type ELSE "-",
         small |-> got /\ f.event_size < HeaderLen,
         passed |-> acc,
         magic |-> IF r.file = "None"
                   THEN (IF in.magic_ok THEN "ok" ELSE "bad") ELSE h.magic,
         seen |-> IF ~registry THEN h.seen
                  ELSE IF got /\ f.type = "Rotate" THEN EmptyMap
                  ELSE IF got /\ f.type = "TableMap"
                  THEN Put(h.seen, f.table_id, f.table)
                  ELSE h.seen,
         kept |-> IF ~registry THEN h.kept
                  ELSE IF acc /\ f.type = "Rotate" THEN EmptyMap
                  ELSE IF acc /\ f.type = "TableMap" /\ PassesTimestamp(r, f)
                  THEN Put(h.kept, f.table_id, f.table)
                  ELSE h.kept,
         prev |-> IF position /\ r2.ret.kind = "event" THEN h.obs ELSE h.prev,
         obs |-> IF position /\ r2.ret.kind = "event" THEN r2.log_pos ELSE h.obs,
         mono |-> mono,
         last |-> IF ~mono THEN 0
                  ELSE IF position /\ got /\ f.log_pos # 0 THEN f.log_pos
                  ELSE h.last,
         probe |-> h.probe,
         opts |-> h.opts,
         look |-> IF ~asks THEN NoLook
                  ELSE [ran |-> TRUE,
                        o1 |-> in.o1,
                        o2 |-> IF g.attempts = 2 THEN in.o2 ELSE "-",
                        result |-> g.result,
                        attempts |-> g.attempts,
                        marked |-> g.marked,
                        reconnected |-> g.reconnected],
         frame |-> IF h.watch = "frame" /\ got THEN f ELSE NoFrame,
         dec |-> h.watch = "frame" /\ dec,
         ended |-> IF h.watch = "end" /\ h.ended = "no" /\ r2.ret.kind = "eof"
                   THEN (IF in.avail = "eof" THEN "eof" ELSE "stop")
                   ELSE h.ended,
         after |-> h.ended # "no"]

AfterClose(h) ==
    [h EXCEPT !.op = "close", !.avail = "-", !.type = "-", !.small = FALSE,
              !.passed = FALSE, !.look = NoLook, !.frame = NoFrame,
              !.dec = FALSE]

-----------------------------------------------------------------------------
(* One reader *)

PairOff == [on |-> FALSE]
FilesOff == [on |-> FALSE]

StartPositions == {None} \cup Positions
StopPositions == {None} \cup Positions
SkipTimestamps == {None} \cup (1..MaxTs)
OnlyEvents == {NoneSet, {"WriteRows"}}
OnlyTables == {NoneSet, {"A"}}

\* The options of the constructor are independent of one another, and the
\* specifications below each vary the ones their properties depend on.

\* Spec: the life of a reader, with and without a metadata connection
Readers ==
    { NewReader(s, None, None, NoneSet, NoneSet, TRUE, NoneSet, cs, FALSE, probe) :
        s \in {None, 0}, cs \in BOOLEAN, probe \in {"connect_error", "CRC32"} }

Init ==
    /\ rd \in Readers
    /\ hist = NoHist("-")
    /\ pair = PairOff
    /\ files = FilesOff

\* SpecPos: every start and stop position
PosReaders ==
    { NewReader(s, e, None, NoneSet, NoneSet, ni, NoneSet, FALSE, FALSE, "NONE") :
        s \in StartPositions, e \in StopPositions, ni \in BOOLEAN }

InitPos ==
    /\ rd \in PosReaders
    /\ hist = NoHist("position")
    /\ pair = PairOff
    /\ files = FilesOff

\* SpecReg: the filters that decide what reaches table_map
RegReaders ==
    { NewReader(s, e, t, oe, NoneSet, TRUE, ot, FALSE, FALSE, "NONE") :
        s \in {0, 1}, e \in {None, MaxPos}, t \in SkipTimestamps,
        oe \in OnlyEvents, ot \in OnlyTables }
    \cup
    \* with fail_on_table_metadata_unavailable
    { NewReader(s, None, t, NoneSet, NoneSet, TRUE, ot, FALSE, TRUE, "NONE") :
        s \in {0, 1}, t \in SkipTimestamps, ot \in OnlyTables }

InitReg ==
    /\ rd \in RegReaders
    /\ hist = NoHist("registry")
    /\ pair = PairOff
    /\ files = FilesOff

\* the frames the reads of a specification find
FramesOf(watch) == IF watch = "frame" THEN EffFrames ELSE Frames

\* a call of fetchone: the first pass through its loop
Fetchone ==
    /\ rd.pc = "idle"
    /\ \E in \in Inputs(rd, FramesOf(hist.watch)) :
        /\ rd' = fetchone(rd, in)
        /\ rd'.orphans <= MaxOrphans
        /\ hist' = AfterPass(hist, rd, in, rd')
    /\ UNCHANGED <<pair, files>>

\* a later pass of the same call, after continue
FetchoneLoop ==
    /\ rd.pc = "loop"
    /\ \E in \in Inputs(rd, FramesOf(hist.watch)) :
        /\ rd' = fetchone(rd, in)
        /\ rd'.orphans <= MaxOrphans
        /\ hist' = AfterPass(hist, rd, in, rd')
    /\ UNCHANGED <<pair, files>>

\* a call of close, between two calls of fetchone
Close ==
    /\ rd.pc = "idle"
    /\ rd' = close(rd)
    /\ hist' = AfterClose(hist)
    /\ UNCHANGED <<pair, files>>

Next == Fetchone \/ FetchoneLoop \/ Close

Spec == Init /\ [][Next]_vars

SpecPos == InitPos /\ [][Next]_vars

SpecReg == InitReg /\ [][Next]_vars

\* SpecEff: what a frame does to the reader, under the position and
\* timestamp filters and under the choices of the allowed events
EffOptions ==
    { <<s, e, MaxTs, NoneSet, NoneSet, TRUE>> : s \in {0, 1}, e \in {None, MaxPos} }
    \cup
    { <<0, None, t, {"WriteRows"}, NoneSet, TRUE>> : t \in SkipTimestamps }
    \cup
    { <<0, None, None, NoneSet, {"Query"}, FALSE>> }
    \cup
    \* a start_pos beyond the stop_pos
    { <<MaxPos, 1, None, NoneSet, NoneSet, TRUE>> }

InitEff ==
    /\ \E o \in EffOptions :
        /\ rd = NewReader(o[1], o[2], o[3], o[4], o[5], o[6], NoneSet,
                          FALSE, FALSE, "NONE")
        /\ hist = [NoHist("frame") EXCEPT
                     !.opts = [only_events |-> o[4], ignored_events |-> o[5],
                               filter_non_implemented_events |-> o[6]]]
    /\ pair = PairOff
    /\ files = FilesOff

SpecEff == InitEff /\ [][Next]_vars

\* SpecEnd: a reader without and with a stop_pos, read to the end and beyond
InitEnd ==
    /\ \E e \in {None, 1} :
        rd = NewReader(0, e, None, NoneSet, NoneSet, TRUE, NoneSet,
                       FALSE, FALSE, "NONE")
    /\ hist = NoHist("end")
    /\ pair = PairOff
    /\ files = FilesOff

SpecEnd == InitEnd /\ [][Next]_vars

\* SpecCtl: a reader with connection settings, connected by the probe
InitCtl ==
    /\ rd = NewReader(0, None, None, NoneSet, NoneSet, TRUE, NoneSet,
                      TRUE, FALSE, "CRC32")
    /\ hist = NoHist("lookup")
    /\ pair = PairOff
    /\ files = FilesOff

SpecCtl == InitCtl /\ [][Next]_vars

\* SpecProbe: a reader built with the defaults, with connection settings and
\* whatever the probe can meet, or without settings on a server with CRC32
InitProbe ==
    /\ \E settings \in BOOLEAN, probe \in ProbeOutcomes :
        /\ settings \/ probe = "CRC32"
        /\ rd = NewReader(None, None, None, NoneSet, NoneSet, TRUE, NoneSet,
                          settings, FALSE, probe)
        /\ hist = [NoHist("-") EXCEPT !.probe = probe]
    /\ pair = PairOff
    /\ files = FilesOff

SpecProbe == InitProbe /\ [][Next]_vars

-----------------------------------------------------------------------------
(* Two readers over one file *)

\* The same file is iterated (__iter__: fetchone until it returns None) by
\* two readers built with the same options except that a filters the
\* NotImplemented events and b does not.  Both read the same frames, so they
\* take their passes together; outA and outB are the events returned so far.

\* the frames of the common file: regular sizes, one timestamp, one table
PairFrames ==
    { f \in Frames : /\ f.event_size >= HeaderLen
                     /\ f.timestamp = 0
                     /\ f.table # "B"
                     /\ f.type # "Query" }

PairOf(s, e) ==
    [on |-> TRUE,
     a |-> NewReader(s, e, None, NoneSet, NoneSet, TRUE, NoneSet, FALSE, FALSE, "NONE"),
     b |-> NewReader(s, e, None, NoneSet, NoneSet, FALSE, NoneSet, FALSE, FALSE, "NONE"),
     outA |-> << >>,
     outB |-> << >>]

InitPair ==
    /\ rd = NewReader(None, None, None, NoneSet, NoneSet, TRUE, NoneSet,
                      FALSE, FALSE, "NONE")
    /\ hist = NoHist("-")
    /\ pair \in { PairOf(s, e) : s \in StartPositions, e \in StopPositions }
    /\ files = FilesOff

\* the iteration is over: fetchone returned None or raised
Done(r) == r.ret.kind \in {"eof", "raise"}

\* the next pass of the reader, if its iteration is not over
PassOf(r, in) == IF Done(r) THEN r ELSE fetchone(r, in)

Emitted(r, r2, out) ==
    IF ~Done(r) /\ r2.ret.kind = "event" THEN Append(out, r2.ret.ev) ELSE out

\* both readers take a pass over the next frame
IteratePair ==
    /\ pair.on
    /\ ~(Done(pair.a) /\ Done(pair.b))
    /\ \E in \in Inputs(IF Done(pair.a) THEN pair.b ELSE pair.a, PairFrames) :
        LET a2 == PassOf(pair.a, in)
            b2 == PassOf(pair.b, in)
            outA2 == Emitted(pair.a, a2, pair.outA)
            outB2 == Emitted(pair.b, b2, pair.outB)
        IN  /\ Len(outA2) <= MaxOut
            /\ Len(outB2) <= MaxOut
            /\ pair' = [on |-> TRUE, a |-> a2, b |-> b2,
                        outA |-> outA2, outB |-> outB2]
    /\ UNCHANGED <<rd, hist, files>>

NextPair == IteratePair

SpecPair == InitPair /\ [][NextPair]_vars

-----------------------------------------------------------------------------
(* get_binlog_file_list *)

\* File names are numbered in the order of their strings, so that < on the
\* numbers is < on the names.  A path is the pair of the directory and the
\* name.  The ages of the files are counted in half seconds.

FileNames == 1..MaxFiles
\* a start_file or stop_file that is not given
NoFile == 0
\* the default of --minutes-ago
MinutesAgo == 3
\* time.time() - os.path.getmtime(f) in half seconds: half a second under
\* the limit of minutes_ago * 60 seconds, or at it
Age(young) == IF young THEN 2 * (MinutesAgo * 60) - 1 ELSE 2 * (MinutesAgo * 60)

\* os.path.join(file_dir, f)
join(file_dir, f) == <<file_dir, f>>

RECURSIVE Insert(_, _)
Insert(x, l) ==
    IF l = << >> THEN <<x>>
    ELSE IF x <= Head(l) THEN <<x>> \o l
    ELSE <<Head(l)>> \o Insert(x, Tail(l))

\* the listing as os.listdir gives it, in no order
Unsorted(l) == l

\* sorted(l)
RECURSIVE sorted(_)
sorted(l) == IF l = << >> THEN << >> ELSE Insert(Head(l), sorted(Tail(l)))

Range(l) == { l[i] : i \in DOMAIN l }

\* int(time.time() - os.path.getmtime(binlog_file))
AgeSeconds(a, f) == a.age[f] \div 2

\* os.path.exists of a path of the directory
exists(a, path) == path[2] \in Range(a.listing)

\* read_file(args.record_file) if args.stop_never and
\* os.path.exists(args.record_file) else []
read_file(a) == IF a.stop_never /\ a.record_exists THEN a.record ELSE << >>

\* lines 538-549: the loop over the sorted listing, with its continue and
\* its break
RECURSIVE WalkDir(_, _, _, _)
WalkDir(a, l, executed_file_list, binlog_file_list) ==
    IF l = << >> THEN binlog_file_list
    ELSE LET f == Head(l)
             binlog_file == join("dir", f)
         IN  IF a.start_file # NoFile /\ f < a.start_file
             THEN WalkDir(a, Tail(l), executed_file_list, binlog_file_list)
             ELSE IF a.stop_file # NoFile /\ f > a.stop_file
             THEN binlog_file_list
             ELSE IF f \notin a.matching
             THEN WalkDir(a, Tail(l), executed_file_list, binlog_file_list)
             ELSE IF /\ a.stop_never
                     /\ \/ AgeSeconds(a, f) < a.minutes_ago * 60
                        \/ binlog_file \in Range(executed_file_list)
             THEN WalkDir(a, Tail(l), executed_file_list, binlog_file_list)
             ELSE WalkDir(a, Tail(l), executed_file_list,
                          Append(binlog_file_list, binlog_file))

\* lines 551-557: the names given with file_path, none of them absolute,
\* joined to file_dir
RECURSIVE WalkPaths(_, _, _)
WalkPaths(a, l, binlog_file_list) ==
    IF l = << >> THEN binlog_file_list
    ELSE IF Head(l) \in a.matching
    THEN WalkPaths(a, Tail(l), Append(binlog_file_list, join("dir", Head(l))))
    ELSE WalkPaths(a, Tail(l), binlog_file_list)

\* get_binlog_file_list(args): the files to parse and the executed files
\* that still exist
get_binlog_file_list(a) ==
    LET executed_file_list == read_file(a)
        binlog_file_list ==
            IF a.file_path = << >>
            THEN WalkDir(a, sorted(a.listing), executed_file_list, << >>)
            ELSE WalkPaths(a, a.file_path, << >>)
    IN  [binlog_file_list |-> binlog_file_list,
         executed_file_list |->
            SelectSeq(executed_file_list, LAMBDA f : exists(a, f))]

\* the sequences of distinct names, in ascending or in descending order
Listings ==
    { l \in UNION { [1..k -> FileNames] : k \in 0..MaxFiles } :
        \/ \A i \in DOMAIN l, j \in DOMAIN l : i < j => l[i] < l[j]
        \/ \A i \in DOMAIN l, j \in DOMAIN l : i < j => l[i] > l[j] }

\* the arguments and what the calls of os find: the listing of file_dir in
\* the order of os.listdir, the names file_regex matches, the ages of the
\* files, and the lines of record_file
Args(l, m, y, r, x, b, e, n, q) ==
    [listing |-> l, matching |-> m, age |-> [f \in FileNames |-> Age(f \in y)],
     record |-> r, record_exists |-> x, start_file |-> b, stop_file |-> e,
     stop_never |-> n, minutes_ago |-> MinutesAgo, file_path |-> q]

\* the lines of a record file: paths, of files that exist or not, in the
\* order the files were executed in
Records ==
    { [i \in DOMAIN q |-> join("dir", q[i])] : q \in { l \in Listings : sorted(l) = l } }

StartStopFiles == {NoFile} \cup FileNames

\* the arguments as main hands them over
FilesOf(a) == [on |-> TRUE, pc |-> "args", args |-> a, binlog_file_list |-> << >>, executed_file_list |-> << >>]

InitFiles ==
    /\ rd = NewReader(None, None, None, NoneSet, NoneSet, TRUE, NoneSet,
                      FALSE, FALSE, "NONE")
    /\ hist = NoHist("-")
    /\ pair = PairOff
    \* os.listdir gives the names in an order of its own
    /\ \E l \in Listings, b \in StartStopFiles, e \in StartStopFiles :
       \E m \in SUBSET Range(l) :
          \* file_dir given and file_path empty, with --stop-never
          \/ \E y \in SUBSET m, r \in Records :
                files = FilesOf(Args(l, m, y, r, TRUE, b, e, TRUE, << >>))
          \* the same with no record file yet, or without --stop-never
          \/ \E n \in BOOLEAN :
                files = FilesOf(Args(l, m, {}, << >>, FALSE, b, e, n, << >>))
          \* names given with file_path
          \/ /\ b = NoFile
             /\ e = NoFile
             /\ m = Range(l)
             /\ \E q \in Listings \ {<< >>} :
                \E g \in SUBSET Range(q) :
                   files = FilesOf(Args(l, g, {}, << >>, FALSE, b, e, FALSE, q))

\* the call of get_binlog_file_list
GetBinlogFileList ==
    /\ files.on
    /\ files.pc = "args"
    /\ LET got == get_binlog_file_list(files.args)
       IN  files' = [files EXCEPT !.pc = "done",
                                  !.binlog_file_list = got.binlog_file_list,
                                  !.executed_file_list = got.executed_file_list]
    /\ UNCHANGED <<rd, hist, pair>>

NextFiles == GetBinlogFileList

SpecFiles == InitFiles /\ [][NextFiles]_vars

-----------------------------------------------------------------------------
(* Properties of get_binlog_file_list, under SpecFiles *)

\* the call was made with file_dir and no file_path, and has returned
DirectoryModeDone ==
    /\ files.on
    /\ files.pc = "done"
    /\ files.args.file_path = << >>

\* the lines of the executed record, none without --stop-never
Recorded(a) == IF a.stop_never THEN Range(a.record) ELSE {}

\* the names of the directory the call has to return
Wanted(a) ==
    { f \in Range(a.listing) :
        /\ f \in a.matching
        /\ a.start_file # NoFile => f >= a.start_file
        /\ a.stop_file # NoFile => f <= a.stop_file
        /\ a.stop_never =>
              /\ ~ (a.age[f] < 2 * (a.minutes_ago * 60))
              /\ join("dir", f) \notin Recorded(a) }

\* C25: in directory mode get_binlog_file_list returns, in the order of their
\* names, exactly the entries of the directory that match file_regex and lie
\* within [start_file, stop_file], without those that, in stop-never mode,
\* were modified less than minutes_ago * 60 seconds ago or are listed in the
\* executed record; the executed list it returns holds only recorded files
\* that still exist.
C25_DirectoryListing ==
    DirectoryModeDone =>
        LET a == files.args
            l == files.binlog_file_list
        IN  /\ \A i \in DOMAIN l, j \in DOMAIN l : i < j => l[i][2] < l[j][2]
            /\ Range(l) = { join("dir", f) : f \in Wanted(a) }
            /\ \A p \in Range(files.executed_file_list) :
                  p \in Recorded(a) /\ p[2] \in Range(a.listing)

\* a stop-never call on a listing in descending order returned one file and
\* left out a file modified half a second less than minutes_ago * 60 seconds
\* ago and a file of the executed record, which it kept in the executed list
C25_Witness ==
    /\ DirectoryModeDone
    /\ files.args.stop_never
    /\ Len(files.args.listing) > 2
    /\ files.args.listing[1] > files.args.listing[2]
    /\ files.args.matching = Range(files.args.listing)
    /\ Len(files.binlog_file_list) = 1
    /\ \E f \in files.args.matching :
          /\ files.args.age[f] = Age(TRUE)
          /\ join("dir", f) \notin Range(files.args.record)
    /\ \E f \in files.args.matching :
          /\ files.args.age[f] = Age(FALSE)
          /\ join("dir", f) \in Range(files.executed_file_list)

-----------------------------------------------------------------------------
(* Properties of the position filters, under SpecPos *)

Returned == rd.ret.kind = "event"

\* C1 as stated: for any start_pos S and stop_pos E with S <= E, E = S and
\* E = 0 included, every event fetchone returns has S <= log_pos < E.
C1_RangeAnyStop ==
    (Returned /\ rd.start_pos # None /\ rd.stop_pos # None
              /\ rd.start_pos <= rd.stop_pos)
        => (rd.start_pos <= rd.ret.ev.log_pos /\ rd.ret.ev.log_pos < rd.stop_pos)

\* C1 amended: the same for S <= E with E > 0; a stop_pos of 0 is a stop_pos
\* that is not set, and bounds nothing.
C1_RangeStopSet ==
    (Returned /\ rd.start_pos # None /\ Truthy(rd.stop_pos)
              /\ rd.start_pos <= rd.stop_pos)
        => (rd.start_pos <= rd.ret.ev.log_pos /\ rd.ret.ev.log_pos < rd.stop_pos)

\* an event is returned from inside a proper range
C1_Witness ==
    /\ Returned
    /\ rd.start_pos # None /\ Truthy(rd.stop_pos)
    /\ 0 < rd.start_pos /\ rd.start_pos < rd.stop_pos
    /\ rd.ret.ev.log_pos = rd.start_pos

\* C4 as stated: self.log_pos observed after each successive returned event
\* never goes down, ROTATE events included.
C4_LogPosNeverDown ==
    hist.prev # None => hist.prev <= hist.obs

\* C4 amended: as long as no ROTATE frame was read and the non-zero end
\* positions of the frames read never went down, self.log_pos observed after
\* successive returned events never goes down.
C4_LogPosFollowsFile ==
    (hist.prev # None /\ hist.mono) => hist.prev <= hist.obs

\* two events were returned and the position moved up between them
C4_Witness ==
    /\ Returned
    /\ hist.mono
    /\ hist.prev # None
    /\ hist.prev < hist.obs
    /\ rd.ret.ev.log_pos = rd.log_pos

\* the reader was constructed without log_pos: the parameter took its default
LogPosDefaulted == rd.start_pos = None

\* C15: in a reader constructed without log_pos, start_pos is 4 and fetchone
\* raises nothing when it compares the log_pos of a decoded event with it.
C15_DefaultStartPos ==
    (LogPosDefaulted /\ hist.type \in {"Query", "Rotate", "TableMap"}) =>
        /\ rd.start_pos = 4
        /\ rd.ret.kind # "raise"

-----------------------------------------------------------------------------
(* Properties of table_map, under SpecReg *)

\* the pass read a ROTATE frame and did not end fetchone at stop_pos
ReadRotate == hist.type = "Rotate" /\ rd.ret.kind # "eof"

\* C2 as stated: table_map is empty right after any ROTATE was read, whatever
\* its log_pos and timestamp and whatever the filters, stop_pos termination
\* excepted.
C2_EmptyAfterAnyRotate ==
    ReadRotate => rd.table_map = EmptyMap

\* C2 amended: table_map is empty right after a ROTATE was read whose log_pos
\* is not below start_pos (and not at or beyond a set stop_pos), whatever its
\* timestamp, skip_to_timestamp and the allowed events.
C2_EmptyAfterRotatePassed ==
    (ReadRotate /\ hist.passed) => rd.table_map = EmptyMap

\* a ROTATE older than skip_to_timestamp and outside only_events was applied
C2_Witness ==
    /\ ReadRotate /\ hist.passed
    /\ rd.pc = "loop"
    /\ Truthy(rd.skip_to_timestamp)
    /\ "Rotate" \notin rd.allowed_events
    /\ rd.log_file = "bin.2"

ReturnedRows == Returned /\ rd.ret.ev.type \in RowsEvents

\* C3 as stated: a returned row event finds its table_id in table_map with
\* the table of the most recent TABLE_MAP for that id read from the file
\* since the last ROTATE, whatever the filters.
C3_LatestTableMapRead ==
    ReturnedRows =>
        /\ rd.ret.ev.table_id \in DOMAIN rd.table_map
        /\ rd.ret.ev.table_id \in DOMAIN hist.seen
        /\ rd.table_map[rd.ret.ev.table_id] = hist.seen[rd.ret.ev.table_id]

\* C3 amended: a returned row event finds its table_id in table_map with the
\* table of the most recent TABLE_MAP for that id that was decoded and passed
\* the position and timestamp filters, since the last ROTATE that passed the
\* position filters.
C3_LatestTableMapKept ==
    ReturnedRows =>
        /\ rd.ret.ev.table_id \in DOMAIN rd.table_map
        /\ rd.ret.ev.table_id \in DOMAIN hist.kept
        /\ rd.table_map[rd.ret.ev.table_id] = hist.kept[rd.ret.ev.table_id]

\* a row event is returned for a table_id that was mapped more than once
C3_Witness ==
    /\ ReturnedRows
    /\ rd.ret.ev.table_id \in DOMAIN hist.kept
    /\ rd.ret.ev.table_id \in DOMAIN hist.seen
    /\ hist.kept[rd.ret.ev.table_id] = "A"
    /\ hist.seen[rd.ret.ev.table_id] = "A"
    /\ rd.only_tables # NoneSet

-----------------------------------------------------------------------------
(* Properties of the life of a reader, under Spec *)

\* C6: after close(), from any state, the reader holds no open file and no
\* metadata connection it opened is still open.
C6_CloseReleasesAll ==
    hist.op = "close" =>
        /\ rd.file # "open"
        /\ rd.ctl_connection # "open"
        /\ rd.orphans = 0

\* C7: close() is idempotent: after a close() that raised nothing, a second
\* close() raises nothing and leaves the reader as it is.
C7_CloseIdempotent ==
    hist.op = "close" =>
        /\ rd.ret.kind = "closed"
        /\ close(rd) = rd

\* close() was called on a reader with an open file and an open connection
C7_Witness ==
    /\ hist.op = "close"
    /\ rd.file = "closed"
    /\ rd.ctl_connection = "closed"
    /\ ~rd.connected_ctl

\* C8: when the first 4 bytes are not the magic, fetchone raises
\* BadMagicBytes and the file handle has been released by then.
C8_BadMagicReleasesFile ==
    (rd.ret.kind = "raise" /\ rd.ret.err = "BadMagicBytes") =>
        /\ hist.magic = "bad"
        /\ rd.file # "open"

\* C9: a frame that declares event_size < 19 makes fetchone raise
\* EventSizeTooSmall, and no event comes out of it.
C9_SmallEventSizeRaises ==
    hist.small => (rd.ret.kind = "raise" /\ rd.ret.err = "EventSizeTooSmall")

\* C10: when fewer than 19 bytes are left where a frame starts (0 to 18),
\* fetchone returns the terminal value and raises nothing.
C10_ShortHeaderIsEof ==
    hist.avail \in {"eof", "partial"} => rd.ret.kind = "eof"

\* C21: once fetchone has raised BadMagicBytes, no later call of fetchone on
\* the reader returns an event (every later call fails).
C21_BadMagicIsFatal ==
    hist.magic = "bad" => rd.ret.kind # "event"

-----------------------------------------------------------------------------
(* Property of the two readers, under SpecPair *)

\* s can be had from t by deleting elements
RECURSIVE IsSubsequence(_, _)
IsSubsequence(s, t) ==
    IF s = << >> THEN TRUE
    ELSE IF t = << >> THEN FALSE
    ELSE IF Head(s) = Head(t) THEN IsSubsequence(Tail(s), Tail(t))
    ELSE IsSubsequence(s, Tail(t))

BothDone == pair.on /\ Done(pair.a) /\ Done(pair.b)

\* C5 as stated: the events returned with filter_non_implemented_events=true
\* are a subsequence of those returned with it false, also when stop_pos is
\* set and NotImplemented events lie at or beyond it.
C5_FilteredIsSubsequence ==
    BothDone => IsSubsequence(pair.outA, pair.outB)

\* C5 amended: the same when stop_pos is not set (None or 0).
C5_FilteredIsSubsequenceNoStop ==
    (BothDone /\ ~Truthy(pair.a.stop_pos)) => IsSubsequence(pair.outA, pair.outB)

\* without stop_pos, the unfiltered reader returned a NotImplemented event
\* between two events that both readers returned
C5_Witness ==
    /\ BothDone
    /\ ~Truthy(pair.a.stop_pos)
    /\ Len(pair.outA) = 1
    /\ Len(pair.outB) = 2
    /\ pair.outB[1].type = "NotImplemented"
    /\ pair.outB[2] = pair.outA[1]

-----------------------------------------------------------------------------
(* Properties of the column lookup, under SpecCtl *)

Looks == hist.look.ran

\* C11: a lookup makes at most two queries; when the first fails with code
\* 2013 or 2006 the resolver clears __connected_ctl, connects again and makes
\* a second query, and when that one succeeds its rows are the result and
\* fetchone raises nothing.
C11_TransientRetried ==
    Looks =>
        /\ hist.look.attempts \in {1, 2}
        /\ hist.look.o1 = "transient" =>
              /\ hist.look.marked
              /\ hist.look.reconnected
              /\ hist.look.attempts = 2
              /\ hist.look.o2 = "ok" =>
                    (hist.look.result = "rows" /\ rd.ret.kind # "raise")

\* the first query failed with a transient error, the second gave the rows
\* and the TABLE_MAP event was returned
C11_Witness ==
    /\ Looks
    /\ hist.look.o1 = "transient"
    /\ hist.look.o2 = "ok"
    /\ hist.look.result = "rows"
    /\ rd.ret.kind = "event"
    /\ rd.ret.ev.type = "TableMap"
    /\ rd.connected_ctl

\* C12: when the first query and the retry both fail with a transient error,
\* the lookup raises an error to its caller instead of returning a result.
C12_DoubleTransientRaises ==
    (Looks /\ hist.look.o1 = "transient" /\ hist.look.o2 = "transient")
        => hist.look.result = "raise"

\* C13: an OperationalError with another code is raised on the query where it
\* occurs: no further query is made, __connected_ctl stays set as it was when
\* the query was made, and fetchone raises the OperationalError.
C13_OtherErrorRaised ==
    (Looks /\ "other" \in {hist.look.o1, hist.look.o2}) =>
        /\ hist.look.result = "raise"
        /\ hist.look.attempts = (IF hist.look.o1 = "other" THEN 1 ELSE 2)
        /\ rd.connected_ctl
        /\ rd.ret.kind = "raise"
        /\ rd.ret.err = "OperationalError"

\* the first query failed with another code and nothing was retried
C13_Witness ==
    /\ Looks
    /\ hist.look.o1 = "other"
    /\ hist.look.attempts = 1
    /\ ~hist.look.marked
    /\ rd.ret.err = "OperationalError"
    /\ rd.ctl_connection = "open"

\* the metadata connections the reader opened that are still open
OpenConnections == rd.orphans + (IF rd.ctl_connection = "open" THEN 1 ELSE 0)

\* C22: at most one metadata connection opened by the reader is open at any
\* time, whatever reconnects the lookups and fetchone made: a connection is
\* closed before another replaces it.
C22_SingleConnection ==
    OpenConnections <= 1

-----------------------------------------------------------------------------
(* Property of the probe of the constructor, under SpecProbe *)

\* C14: use_checksum is true exactly when the reader has connection settings
\* and the BINLOG_CHECKSUM query gave a row with a value other than NONE; it
\* is false without settings, after a failed connection or query, without a
\* row and without a value; and it stays what the constructor made it.
C14_ChecksumProbe ==
    rd.use_checksum <=>
        /\ rd.ctl_connection_settings
        /\ hist.probe \notin
              {"connect_error", "query_error", "no_row", "no_value", "NONE"}

\* checksums are on, and still on after frames were read, a lookup was
\* retried and the reader was closed
C14_Witness ==
    /\ rd.use_checksum
    /\ hist.probe = "CRC32"
    /\ hist.op = "close"
    /\ rd.file = "closed"
    /\ rd.orphans > 0

-----------------------------------------------------------------------------
(* Property of the end of the stream, under SpecEnd *)

\* C23 as stated: once fetchone has returned None, because read(19) found
\* the end of the file or because stop_pos was reached, no later call on the
\* open reader returns an event.
C23_EndIsAbsorbing ==
    (hist.ended # "no" /\ rd.file = "open") => rd.ret.kind # "event"

\* C23 amended: once fetchone has returned None because read(19) found the
\* end of the file, every later call on the open reader over the unchanged
\* file returns None again.
C23_EofIsAbsorbing ==
    (hist.ended = "eof" /\ rd.file = "open") => rd.ret.kind = "eof"

\* events were returned, the end of the file was found, and fetchone was
\* called again
C23_Witness ==
    /\ hist.ended = "eof"
    /\ hist.after
    /\ hist.op = "fetchone"
    /\ rd.file = "open"
    /\ rd.ret.kind = "eof"
    /\ rd.log_pos > 0

-----------------------------------------------------------------------------
(* Properties of what a frame does to the reader, under SpecEff *)

\* the last pass decoded an event of the class
Decodes(type) == hist.op = "fetchone" /\ hist.dec /\ hist.frame.type = type

C17_OldRotateApplied ==
    (Decodes("Rotate") /\ hist.passed /\ BeforeTimestamp(rd, hist.frame)) =>
        /\ rd.table_map = EmptyMap
        /\ rd.log_file = hist.frame.next_binlog
        /\ rd.log_pos = hist.frame.position
        /\ rd.ret.kind = "pending"

\* a ROTATE with timestamp 0 and an end position other than its target was
\* applied under a skip_to_timestamp
C17_Witness ==
    /\ Decodes("Rotate") /\ hist.passed
    /\ Truthy(rd.skip_to_timestamp)
    /\ hist.frame.timestamp = 0
    /\ hist.frame.log_pos # hist.frame.position
    /\ rd.log_file = "bin.2"
    /\ rd.ret.kind = "pending"

\* the allowed set as the caller asked for it: only_events (all the classes
\* when None) minus ignored_events, minus NotImplemented when
\* filter_non_implemented_events
Requested ==
    LET o == hist.opts
        only == IF o.only_events = NoneSet THEN DefaultEvents ELSE o.only_events
        ignored == IF o.ignored_events = NoneSet THEN {} ELSE o.ignored_events
        ni == IF o.filter_non_implemented_events THEN {"NotImplemented"} ELSE {}
    IN  (only \ ignored) \ ni

\* C18: every event fetchone returns has a class of the requested set; a
\* TABLE_MAP event that passes the position and timestamp filters is in
\* table_map under its table_id after the pass, and when TableMap is outside
\* the requested set it is not returned.
C18_AllowedAndTableMapStored ==
    /\ Returned => rd.ret.ev.type \in Requested
    /\ (Decodes("TableMap") /\ hist.passed /\ PassesTimestamp(rd, hist.frame)) =>
          /\ hist.frame.table_id \in DOMAIN rd.table_map
          /\ rd.table_map[hist.frame.table_id] = hist.frame.table
          /\ "TableMap" \notin Requested => rd.ret.kind = "pending"

\* a TABLE_MAP outside only_events was stored and not returned
C18_Witness ==
    /\ Decodes("TableMap") /\ hist.passed
    /\ "TableMap" \notin Requested
    /\ hist.frame.table_id \in DOMAIN rd.table_map
    /\ rd.table_map[hist.frame.table_id] = hist.frame.table
    /\ rd.ret.kind = "pending"

\* C19: a pass whose event passes the position filters sets, for a ROTATE,
\* log_file to its next_binlog and log_pos to its position; for any other
\* event it leaves log_file, and sets log_pos to the event's log_pos when
\* that is greater than 0 and leaves log_pos otherwise.
C19_PositionTracking ==
    [][ (hist'.op = "fetchone" /\ hist'.passed) =>
          IF hist'.frame.type = "Rotate"
          THEN /\ rd'.log_file = hist'.frame.next_binlog
               /\ rd'.log_pos = hist'.frame.position
          ELSE /\ rd'.log_file = rd.log_file
               /\ rd'.log_pos = IF hist'.frame.log_pos > 0
                                THEN hist'.frame.log_pos ELSE rd.log_pos ]_vars

\* an event with log_pos 0 was returned after a ROTATE and left the position
\* at the target of the rotation
C19_Witness ==
    /\ hist.op = "fetchone" /\ hist.passed
    /\ hist.frame.type # "Rotate"
    /\ hist.frame.log_pos = 0
    /\ rd.ret.kind = "event"
    /\ rd.log_file = "bin.2"
    /\ rd.log_pos = 1

\* the pass applied a ROTATE: it was decoded and passed the position filters
AppliedRotate == Decodes("Rotate") /\ hist.passed

\* C20: a pass of fetchone that does not apply a ROTATE removes no table_id
\* from table_map: it leaves table_map as it is, or puts the entry of the
\* TABLE_MAP it read and leaves the others.
C20_NoEviction ==
    [][ (hist'.op = "fetchone" /\ ~AppliedRotate') =>
          /\ DOMAIN rd.table_map \subseteq DOMAIN rd'.table_map
          /\ \/ rd'.table_map = rd.table_map
             \/ /\ hist'.frame.type = "TableMap"
                /\ rd'.table_map = Put(rd.table_map, hist'.frame.table_id,
                                       hist'.frame.table) ]_vars

\* a TABLE_MAP was stored next to the entry of another table_id
C20_Witness ==
    /\ Decodes("TableMap") /\ hist.passed
    /\ DOMAIN rd.table_map = EffTableIds
    /\ rd.table_map[hist.frame.table_id] = hist.frame.table
    /\ \E i \in DOMAIN rd.table_map : rd.table_map[i] # hist.frame.table

\* the frame the pass read was dropped by the classes of the packet set or,
\* once decoded, by start_pos (line 195)
DroppedEarly ==
    /\ hist.op = "fetchone"
    /\ hist.frame # NoFrame
    /\ \/ hist.frame.type \notin rd.allowed_events_in_packet
       \/ hist.dec /\ BeforeStart(rd, hist.frame)

\* the reader but for the file and its cursor and the outcome of the pass
Kept(r) ==
    [r EXCEPT !.file = "-", !.pos = 0, !.at_eof = FALSE, !.pc = "-",
              !.ret = Ret("-", NoFrame, "-")]

\* C24: a pass whose frame is dropped by the packet set or by start_pos
\* leaves log_file, log_pos, table_map and every other attribute but the
\* file and its cursor as they were, and continues with the next frame: the
\* test of stop_pos is not made, also when the log_pos is at or beyond it.
C24_DroppedChangesNothing ==
    [][ DroppedEarly' =>
          /\ rd'.log_file = rd.log_file
          /\ rd'.log_pos = rd.log_pos
          /\ rd'.table_map = rd.table_map
          /\ Kept(rd') = Kept(rd)
          /\ rd'.ret.kind = "pending" ]_vars

\* an event below start_pos and at or beyond stop_pos was dropped and the
\* pass continued
C24_Witness ==
    /\ DroppedEarly
    /\ hist.dec
    /\ Truthy(rd.stop_pos)
    /\ hist.frame.log_pos >= rd.stop_pos
    /\ hist.frame.log_pos < rd.start_pos
    /\ rd.ret.kind = "pending"

====
